---- MODULE Spec2Model ----
(***************************************************************************)
(* Model of the synchronization coordinator of obsidian-git (src/main.ts): *)
(* the plugin's readiness check (init), the pull workflow                  *)
(* (pullChangesFromRemote), the backup workflow (createBackup), the        *)
(* conflict reporter (handleConflict / writeAndOpenFile) and the triggers  *)
(* (commands, interval timers, onload) that feed the promise queue.        *)
(*                                                                         *)
(* JavaScript runs each callback to completion, so one action is one       *)
(* run-to-completion segment: the return of an awaited call, the           *)
(* synchronous code after it and the issue of the next awaited call.  The  *)
(* pc of a context names the call it is suspended on.                      *)
(***************************************************************************)
EXTENDS Integers, Sequences, FiniteSets, TLC

\* ------------------------------------------------------------ bounds
\* Number of addTask calls made by commands and timer ticks in one run.
MaxTasks == 2
\* Largest file count a backend call (pull, commitAll, push) reports.
MaxCount == 1
\* Conflict-report writes in flight at once (handleConflict is not awaited).
MaxWrites == 1

\* ------------------------------------------------------------ values
Paths == {"b.md", "c.md"}
\* The paths of Paths that the vault resolves to a TFile.
VaultFiles == {"b.md"}
\* status().conflicted: the lists of distinct paths.
ConflictLists == {<<>>, <<"c.md">>, <<"b.md", "c.md">>}
\* status().changed
ChangedLists == {<<>>, <<"a.md">>}
Requirements == {"valid", "missing-git", "missing-repo", "wrong-settings"}
PullCounts == 0..MaxCount
FileCounts == 1..MaxCount

\* conflictOutputFile = "conflict-files-obsidian-git.md", as a sequence of
\* pieces so that startsWith can be computed.
conflictOutputFile == <<"conflict", "-files-obsidian-git", ".md">>
\* The display text of a view that shows the report (its basename).
ReportViewText == <<"conflict", "-files-obsidian-git">>
\* Display texts of views the user may have open when the plugin loads.
UserViews == {{}, {<<"conflict">>}}

Absent == <<"absent">>
\* A status() result the workflow has not obtained yet.
Unchecked == <<"unchecked">>

\* ------------------------------------------------------------ state
VARIABLES
    loaded,         \* onload has run (commands are registered)
    settings,       \* this.settings
    gitManager,     \* "none", "SimpleGit" or "IsomorphicGit"
    gitReady,       \* this.gitReady
    state,          \* this.state: "unset", "idle" or "conflicted"
    intervalBackup, \* auto-backup interval timers armed
    intervalPull,   \* auto-pull interval timers armed
    onloadInit,     \* the init() called by onload awaits checkRequirements
    listCmd,        \* list-changed-files callback: "none", "init", "status"
    pending,        \* promiseQueue: producers not yet started
    wf,             \* promiseQueue: the producer in execution (or NoWf)
    writes,         \* report texts whose adapter.write is in flight
    reportFile,     \* content of the report file, or Absent
    leaves,         \* display texts of the open views
    enqueued,       \* history: addTask calls so far
    triggered,      \* history: addTask calls by commands and timers
    budget,         \* the number of such calls the run explores
    started,        \* history: producers started so far
    bodies,         \* history: producer bodies with unresolved suspension
    lastFailed,     \* history: a producer's promise has rejected
    initEvent,      \* the init() return of the step just taken, if it was one
    lastCheck,      \* history: last status() seen by a conflict-aware workflow
    opened          \* history: openLinkText calls by the reporter

vars == <<loaded, settings, gitManager, gitReady, state, intervalBackup,
          intervalPull, onloadInit, listCmd, pending, wf, writes, reportFile,
          leaves, enqueued, triggered, budget, started, bodies, lastFailed, initEvent,
          lastCheck, opened>>

\* ------------------------------------------------------------ helpers
\* String.prototype.startsWith over piece sequences.
StartsWith(s, p) == Len(p) <= Len(s) /\ SubSeq(s, 1, Len(p)) = p

\* DEFAULT_SETTINGS merged with the stored data, for the flags the
\* coordinator reads (intervals in minutes, 0 = disabled).
Settings(standalone, onBoot, save, pull, noPush, pullFirst) ==
    [standaloneMode |-> standalone, isMobile |-> FALSE,
     autoPullOnBoot |-> onBoot, autoSaveInterval |-> save,
     autoPullInterval |-> pull, disablePush |-> noPush,
     pullBeforePush |-> pullFirst]

\* The configurations explored: the defaults with auto backup switched on,
\* and variations that flip each flag the workflows branch on.
DefaultRun == Settings(FALSE, FALSE, 1, 0, FALSE, TRUE)
SettingsSpace ==
    {DefaultRun,
     Settings(FALSE, TRUE, 0, 1, FALSE, FALSE),
     Settings(FALSE, FALSE, 1, 0, TRUE, TRUE),
     Settings(TRUE, FALSE, 1, 0, FALSE, TRUE)}

\* init(): the backend chosen from the settings.
SelectBackend(s) ==
    IF s.standaloneMode \/ s.isMobile THEN "IsomorphicGit" ELSE "SimpleGit"

\* `this.gitManager instanceof SimpleGit`
ConflictAware(gm) == gm = "SimpleGit"

Msg(text, n) == [err |-> FALSE, text |-> text, n |-> n]
Err(text, n) == [err |-> TRUE, text |-> text, n |-> n]

NoWf ==
    [kind |-> "none", auto |-> FALSE, ticket |-> 0, pc |-> "none",
     outcome |-> "none", calls |-> <<>>, msgs |-> <<>>, first |-> Unchecked,
     changed |-> Unchecked, recheck |-> Unchecked, readyAfterInit |-> "n/a",
     report |-> Absent, remote |-> "n/a", can |-> "n/a", pulled |-> -1,
     committed |-> -1, pushed |-> -1]

\* A workflow issues an awaited call and suspends on it.
Call(w, pc, name) == [w EXCEPT !.pc = pc, !.calls = Append(@, name)]
Say(w, m) == [w EXCEPT !.msgs = Append(@, m)]
\* The async function returns: its promise resolves.
Return(w) == [w EXCEPT !.pc = "done", !.outcome = "returned"]
\* Variant of Throw: the exception is kept inside the workflow, whose
\* promise then never settles.
ThrowHang(w) == [w EXCEPT !.pc = "hung", !.outcome = "rejected"]

\* An exception leaves the async function: its promise rejects.
Throw(w) == [w EXCEPT !.pc = "done", !.outcome = "rejected"]

\* No other callback runs while the queue has a synchronous step to take:
\* a finished producer is dequeued, and an idle queue starts its head.
Urgent == wf.pc = "done" \/ (wf.kind = "none" /\ pending # <<>>)

\* ------------------------------------------------------------ init
\* The step just taken was no return of init().
NoInit == [res |-> "none", err |-> "none"]
Quiet == initEvent' = NoInit

\* The switch over the checkRequirements result: "wrong-settings" has no
\* break and falls through into "valid".
InitMarksReady(r) == r \in {"wrong-settings", "valid"}

\* The displayError of the switch, "none" when the case has none.
InitError(r) ==
    CASE r = "missing-git" -> "Cannot run git command"
      [] r = "missing-repo" -> "Valid git repository not found"
      [] r = "wrong-settings" ->
            "Not all of the required standalone mode settings are set"
      [] OTHER -> "none"

\* promiseQueue.addTask(producer): the producer joins the queue's tail.
AddTask(kind, auto) ==
    /\ pending' = Append(pending,
                         [kind |-> kind, auto |-> auto, ticket |-> enqueued + 1])
    /\ enqueued' = enqueued + 1

\* enableAutoBackup / enableAutoPull: a new interval timer is armed; the
\* handle of an earlier one is overwritten, the timer itself is not cleared.
EnableAuto(n) == n + 1

\* init() from the return of checkRequirements on.
InitReturn(r) ==
    /\ initEvent' = [res |-> r, err |-> InitError(r)]
    /\ IF InitMarksReady(r)
       THEN /\ gitReady' = TRUE
            /\ state' = "idle"
            /\ IF settings.autoPullOnBoot
               THEN AddTask("pull", FALSE)
               ELSE UNCHANGED <<pending, enqueued>>
            /\ intervalBackup' = IF settings.autoSaveInterval > 0
                                 THEN EnableAuto(intervalBackup)
                                 ELSE intervalBackup
            /\ intervalPull' = IF settings.autoPullInterval > 0
                               THEN EnableAuto(intervalPull)
                               ELSE intervalPull
       ELSE UNCHANGED <<gitReady, state, pending, enqueued, intervalBackup,
                        intervalPull>>

\* ------------------------------------------------------------ workflows
\* pullChangesFromRemote once ready: the backend pull is awaited.
PullBody(w) == Call(w, "pull", "pull")

\* createBackup: the conflict check of a conflict-aware backend, else the
\* changed-files status.
BackupCheck(w, gm) ==
    IF ConflictAware(gm) THEN Call(w, "status1", "status")
                         ELSE Call(w, "status2", "status")

\* createBackup once ready: a manual backup first deletes the report file.
BackupBody(w, gm) ==
    IF ~w.auto THEN Call(w, "delete", "delete") ELSE BackupCheck(w, gm)

\* Variant of AbortNotReady: the second readiness test is missing.
AbortNever(g) == FALSE

\* `if (!this.gitReady) return;`
AbortNotReady(g) == ~g

\* The producer is called: the workflow runs up to its first await.
StartWorkflow(t, g, gm) ==
    LET w0 == [NoWf EXCEPT !.kind = t.kind, !.auto = t.auto,
                           !.ticket = t.ticket, !.outcome = "running"]
    IN IF ~g THEN Call(w0, "init", "checkRequirements")
       ELSE IF t.kind = "pull" THEN PullBody(w0) ELSE BackupBody(w0, gm)

\* The workflow after its `await this.init()`.
AfterInit(w, g, gm) ==
    LET w1 == [w EXCEPT !.readyAfterInit = IF g THEN "yes" ELSE "no"]
    IN IF AbortNotReady(g) THEN Return(w1)
       ELSE IF w.kind = "pull" THEN PullBody(w1) ELSE BackupBody(w1, gm)

\* ------------------------------------------------------------ reporter
\* metadataCache.fileToLinktext(file, "/"): the link text of a vault file.
LinkText(p) ==
    CASE p = "b.md" -> "b"
      [] p = "c.md" -> "c"
      [] OTHER -> p

\* handleConflict: the bullet of one conflicted path.
Bullet(e) ==
    IF e \in VaultFiles THEN <<"link", LinkText(e)>> ELSE <<"notafile", e>>

\* handleConflict: conflicted.map(...), one bullet per path, in order.
RenderBullets(conflicted) ==
    [i \in 1..Len(conflicted) |-> Bullet(conflicted[i])]

\* handleConflict: the lines of the report.
ReportLines(conflicted) ==
    <<<<"heading", "# Conflict files">>,
      <<"text", "Please resolve them and commit per command">>>>
    \o RenderBullets(conflicted)

\* handleConflict(conflicted), called without await: the state is set, the
\* text is built and writeAndOpenFile suspends on adapter.write.
HandleConflict(conflicted) ==
    /\ Len(writes) < MaxWrites
    /\ state' = "conflicted"
    /\ writes' = Append(writes, ReportLines(conflicted))

\* The workflow's own record of the handleConflict call it made.
Reported(w, conflicted) ==
    [w EXCEPT !.calls = Append(@, "write"),
              !.report = ReportLines(conflicted)]

\* writeAndOpenFile: does an open view already show the report?
FileIsAlreadyOpened(ls) ==
    \E leaf \in ls : leaf # <<>> /\ StartsWith(conflictOutputFile, leaf)

\* ------------------------------------------------------------ conditions
\* Variant of AutoConflictAbort: the length test is off by one.
AutoConflictAbortOffByOne(auto, conflicted) == auto /\ Len(conflicted) > 1

\* createBackup: `fromAutoBackup && status.conflicted.length > 0`
AutoConflictAbort(auto, conflicted) == auto /\ Len(conflicted) > 0

\* Variant of RecheckBlocksPush: the length test is off by one.
RecheckOffByOne(conflicted) == Len(conflicted) > 1

\* createBackup: the re-check before push,
\* `instanceof SimpleGit && status.conflicted.length > 0`
RecheckBlocksPush(conflicted) == Len(conflicted) > 0

\* The history of conflict checks: what the last one observed.
Observed(conflicted) == IF Len(conflicted) > 0 THEN "nonempty" ELSE "empty"

\* ------------------------------------------------------------ frames
envVars == <<loaded, settings, budget, leaves, reportFile, opened>>
initVars == <<gitReady, state, intervalBackup, intervalPull>>
queueVars == <<pending, enqueued>>
histVars == <<started, bodies, lastFailed, triggered>>
otherCtx == <<onloadInit, listCmd>>

\* ------------------------------------------------------------ Init
InitFor(space, tasks) ==
    /\ budget = tasks
    /\ loaded = FALSE
    /\ settings \in space
    /\ gitManager = "none"
    /\ gitReady = FALSE
    /\ state = "unset"
    /\ intervalBackup = 0
    /\ intervalPull = 0
    /\ onloadInit = FALSE
    /\ listCmd = "none"
    /\ pending = <<>>
    /\ wf = NoWf
    /\ writes = <<>>
    /\ reportFile = Absent
    /\ leaves \in (IF settings = DefaultRun THEN UserViews ELSE {{}})
    /\ enqueued = 0
    /\ triggered = 0
    /\ started = 0
    /\ bodies = 0
    /\ lastFailed = FALSE
    /\ initEvent = NoInit
    /\ lastCheck = "none"
    /\ opened = 0

Init == InitFor(SettingsSpace, MaxTasks)

\* ------------------------------------------------------------ lifecycle
\* onload: the commands are registered and init() is called, not awaited
\* and not through the queue; it suspends on checkRequirements.
Onload ==
    /\ Quiet
    /\ ~loaded
    /\ loaded' = TRUE
    /\ gitManager' = SelectBackend(settings)
    /\ onloadInit' = TRUE
    /\ UNCHANGED <<settings, budget, leaves, reportFile, opened, initVars,
                   queueVars, histVars, listCmd, wf, writes, lastCheck>>

\* The init() of onload resumes with the checkRequirements result.
OnloadInitReturn ==
    /\ ~Urgent
    /\ onloadInit
    /\ \E r \in Requirements : InitReturn(r)
    /\ onloadInit' = FALSE
    /\ UNCHANGED <<envVars, gitManager, histVars, listCmd, wf, writes,
                   lastCheck>>

\* ------------------------------------------------------------ triggers
\* Variant of Trigger: the callback calls the workflow method itself
\* instead of handing a producer to the queue.
TriggerDirect(kind, auto) ==
    /\ wf' = StartWorkflow([kind |-> kind, auto |-> auto, ticket |-> started + 1],
                           gitReady, gitManager)
    /\ gitManager' = IF ~gitReady THEN SelectBackend(settings) ELSE gitManager
    /\ bodies' = bodies + 1
    /\ started' = started + 1
    /\ enqueued' = enqueued + 1
    /\ pending' = pending

\* A command callback or a timer tick hands its producer to the queue.
Trigger(kind, auto) ==
    /\ AddTask(kind, auto)
    /\ UNCHANGED <<wf, started, bodies, gitManager>>

TriggerFrame ==
    /\ Quiet
    /\ ~Urgent
    /\ loaded
    /\ triggered < budget
    /\ triggered' = triggered + 1
    /\ UNCHANGED <<envVars, initVars, otherCtx, writes, lastCheck, lastFailed>>

\* Command "pull".
CommandPull == TriggerFrame /\ Trigger("pull", FALSE)

\* Command "push": commit all changes and push.
CommandPush == TriggerFrame /\ Trigger("backup", FALSE)

\* Command "commit-push-specified-message": the modal enqueues a manual
\* backup with the message the user typed.
CommandCommitPushSpecified == TriggerFrame /\ Trigger("backup", FALSE)

\* A tick of an auto-backup interval timer.
TimerBackupTick ==
    TriggerFrame /\ intervalBackup > 0 /\ Trigger("backup", TRUE)

\* A tick of an auto-pull interval timer.
TimerPullTick ==
    TriggerFrame /\ intervalPull > 0 /\ Trigger("pull", FALSE)

\* ------------------------------------------------------------ queue
\* The queue starts its head producer.
QueueStart ==
    /\ Quiet
    /\ wf.kind = "none"
    /\ pending # <<>>
    /\ wf' = StartWorkflow(Head(pending), gitReady, gitManager)
    /\ gitManager' = IF ~gitReady THEN SelectBackend(settings) ELSE gitManager
    /\ pending' = Tail(pending)
    /\ started' = started + 1
    /\ bodies' = bodies + 1
    /\ UNCHANGED <<envVars, initVars, otherCtx, writes, lastCheck, enqueued,
                   triggered, lastFailed>>

\* The running producer's promise settled, resolved or rejected: it is
\* dequeued and the queue goes on.
QueueFinish ==
    /\ Quiet
    /\ wf.pc = "done"
    /\ wf' = NoWf
    /\ bodies' = bodies - 1
    /\ lastFailed' = (lastFailed \/ wf.outcome = "rejected")
    /\ UNCHANGED <<envVars, initVars, otherCtx, writes, lastCheck, queueVars,
                   started, triggered, gitManager>>

\* ------------------------------------------------------------ list command
\* Command "list-changed-files": the callback itself re-attempts init() and
\* calls status(), outside the queue.
CommandListChangedFiles ==
    /\ Quiet
    /\ ~Urgent
    /\ loaded
    /\ listCmd = "none"
    /\ listCmd' = IF ~gitReady THEN "init" ELSE "status"
    /\ gitManager' = IF ~gitReady THEN SelectBackend(settings) ELSE gitManager
    /\ UNCHANGED <<envVars, initVars, queueVars, histVars, onloadInit, wf,
                   writes, lastCheck>>

\* The callback's init() resumes; the callback goes on to status() or returns.
ListInitReturn ==
    /\ ~Urgent
    /\ listCmd = "init"
    /\ \E r \in Requirements : InitReturn(r)
    /\ listCmd' = IF AbortNotReady(gitReady') THEN "none" ELSE "status"
    /\ UNCHANGED <<envVars, gitManager, histVars, onloadInit, wf, writes,
                   lastCheck>>

\* The callback's status() settles: the modal opens, or the callback rejects.
ListStatusReturn ==
    /\ Quiet
    /\ ~Urgent
    /\ listCmd = "status"
    /\ listCmd' = "none"
    /\ UNCHANGED <<envVars, initVars, queueVars, histVars, gitManager,
                   onloadInit, wf, writes, lastCheck>>

\* ------------------------------------------------------------ pull workflow
wfFrame == <<envVars, gitManager, histVars, otherCtx>>

\* The workflow's init() resumes with the checkRequirements result.
WorkflowInitReturn ==
    /\ ~Urgent
    /\ wf.kind # "none"
    /\ wf.pc = "init"
    /\ \E r \in Requirements : InitReturn(r)
    /\ wf' = AfterInit(wf, gitReady', gitManager)
    /\ UNCHANGED <<wfFrame, writes, lastCheck>>

\* Variant of PullMessage: the count test is off by one.
PullMessageOffByOne(n) ==
    IF n > 1 THEN Msg("Pulled new changes. {n} files updated", n)
             ELSE Msg("Everything is up-to-date", 0)

\* The message of pullChangesFromRemote for a pull of n files.
PullMessage(n) ==
    IF n > 0 THEN Msg("Pulled new changes. {n} files updated", n)
             ELSE Msg("Everything is up-to-date", 0)

\* pullChangesFromRemote: pull() returned.
PullPullReturn ==
    /\ Quiet
    /\ ~Urgent
    /\ wf.kind = "pull"
    /\ wf.pc = "pull"
    /\ \E n \in PullCounts :
         LET w1 == Say([wf EXCEPT !.pulled = n], PullMessage(n))
         IN IF ConflictAware(gitManager)
            THEN /\ wf' = Call(w1, "status", "status")
                 /\ state' = state
            ELSE /\ wf' = Return(w1)
                 /\ state' = "idle"
    /\ UNCHANGED <<wfFrame, gitReady, intervalBackup, intervalPull,
                   queueVars, writes, lastCheck>>

\* Variant of PullFinalState: conflicts found by the pull are escalated.
PullEscalates(c) == IF Len(c) > 0 THEN "conflicted" ELSE "idle"

\* pullChangesFromRemote: `this.setState(PluginState.idle)`, whatever the
\* status check found.
PullFinalState(c) == "idle"

\* pullChangesFromRemote: status() returned.
PullStatusReturn ==
    /\ Quiet
    /\ ~Urgent
    /\ wf.kind = "pull"
    /\ wf.pc = "status"
    /\ \E c \in ConflictLists :
         /\ wf' = Return(IF Len(c) > 0
                         THEN Say([wf EXCEPT !.first = c],
                                  Err("You have {n} conflict files", Len(c)))
                         ELSE [wf EXCEPT !.first = c])
         /\ lastCheck' = Observed(c)
         /\ state' = PullFinalState(c)
    /\ UNCHANGED <<wfFrame, gitReady, intervalBackup, intervalPull,
                   queueVars, writes>>

\* ------------------------------------------------------------ backup workflow
bkFrame == <<wfFrame, gitReady, intervalBackup, intervalPull,
             queueVars>>

\* createBackup: vault.delete(file) resolved.  With no report file the path
\* lookup gives null and delete(null) may resolve without effect.
BackupDeleteReturn ==
    /\ Quiet
    /\ ~Urgent
    /\ wf.kind = "backup"
    /\ wf.pc = "delete"
    /\ reportFile' = Absent
    /\ wf' = BackupCheck(wf, gitManager)
    /\ UNCHANGED <<loaded, settings, budget, leaves, opened, gitManager, histVars,
                   otherCtx, initVars, queueVars, state, writes, lastCheck>>

\* createBackup: with no report file, delete(null) may as well reject; the
\* exception leaves createBackup.
BackupDeleteFails ==
    /\ Quiet
    /\ ~Urgent
    /\ wf.kind = "backup"
    /\ wf.pc = "delete"
    /\ reportFile = Absent
    /\ wf' = Throw(wf)
    /\ UNCHANGED <<bkFrame, state, writes, lastCheck>>

\* createBackup: the conflict check's status() returned.  On the abort path
\* setState(idle) runs first and handleConflict sets conflicted in the same
\* segment, so idle is never observed.
BackupStatus1Return ==
    /\ Quiet
    /\ ~Urgent
    /\ wf.kind = "backup"
    /\ wf.pc = "status1"
    /\ \E c \in ConflictLists :
         /\ lastCheck' = Observed(c)
         /\ IF AutoConflictAbort(wf.auto, c)
            THEN /\ HandleConflict(c)
                 /\ wf' = Return(Reported(
                        Say([wf EXCEPT !.first = c],
                            Err("Did not commit, because you have {n} conflict files",
                                Len(c))), c))
            ELSE /\ wf' = Call([wf EXCEPT !.first = c], "status2", "status")
                 /\ UNCHANGED <<state, writes>>
    /\ UNCHANGED bkFrame

\* createBackup from `if (!this.settings.disablePush)` on.
PushPhase(w) ==
    IF ~settings.disablePush THEN Call(w, "branchInfo", "branchInfo")
                             ELSE Return(w)

\* Variant of HasChanges: the test is always taken.
HasChangesAlways(changed) == TRUE

\* createBackup: `changedFiles.length !== 0`
HasChanges(changed) == Len(changed) # 0

\* createBackup: the changed-files status() returned.
BackupStatus2Return ==
    /\ Quiet
    /\ ~Urgent
    /\ wf.kind = "backup"
    /\ wf.pc = "status2"
    /\ \E changed \in ChangedLists :
         LET w1 == [wf EXCEPT !.changed = changed]
         IN IF HasChanges(changed)
            THEN /\ wf' = Call(w1, "commitAll", "commitAll")
                 /\ state' = state
            ELSE /\ wf' = PushPhase(Say(w1, Msg("No changes to commit", 0)))
                 /\ state' = IF wf'.pc = "done" THEN "idle" ELSE state
    /\ UNCHANGED <<bkFrame, writes, lastCheck>>

\* createBackup: commitAll() returned.
BackupCommitReturn ==
    /\ Quiet
    /\ ~Urgent
    /\ wf.kind = "backup"
    /\ wf.pc = "commitAll"
    /\ \E n \in FileCounts :
         wf' = PushPhase(Say([wf EXCEPT !.committed = n],
                             Msg("Committed {n} files", n)))
    /\ state' = IF wf'.pc = "done" THEN "idle" ELSE state
    /\ UNCHANGED <<bkFrame, writes, lastCheck>>

\* Variant of NoUpstream: the test is never taken.
NoUpstreamNever(remote) == FALSE

\* createBackup: `!(await this.gitManager.branchInfo()).remote`
NoUpstream(remote) == ~remote

\* createBackup: branchInfo() returned, with or without a remote.
BackupBranchInfoReturn ==
    /\ Quiet
    /\ ~Urgent
    /\ wf.kind = "backup"
    /\ wf.pc = "branchInfo"
    /\ \E remote \in BOOLEAN :
         LET w1 == [wf EXCEPT !.remote = IF remote THEN "yes" ELSE "no"]
         IN IF NoUpstream(remote)
            THEN /\ wf' = Return(Say(w1,
                       Err("Did not push. No upstream branch is set!", 0)))
                 /\ state' = "idle"
            ELSE /\ wf' = Call(w1, "canPush", "canPush")
                 /\ state' = state
    /\ UNCHANGED <<bkFrame, writes, lastCheck>>

\* createBackup: the conflict re-check before push, or the push itself.
Recheck(w, gm) ==
    IF ConflictAware(gm) THEN Call(w, "status3", "status")
                         ELSE Call(w, "push", "push")

\* Variant of PushAllowed: the result of canPush is ignored.
PushAllowedAlways(can) == TRUE

\* createBackup: `if (await this.gitManager.canPush())`
PushAllowed(can) == can

\* createBackup: canPush() returned.
BackupCanPushReturn ==
    /\ Quiet
    /\ ~Urgent
    /\ wf.kind = "backup"
    /\ wf.pc = "canPush"
    /\ \E can \in BOOLEAN :
         LET w1 == [wf EXCEPT !.can = IF can THEN "yes" ELSE "no"]
         IN IF PushAllowed(can)
            THEN /\ wf' = IF settings.pullBeforePush
                          THEN Call(w1, "pull", "pull")
                          ELSE Recheck(w1, gitManager)
                 /\ state' = state
            ELSE /\ wf' = Return(Say(w1, Msg("No changes to push", 0)))
                 /\ state' = "idle"
    /\ UNCHANGED <<bkFrame, writes, lastCheck>>

\* Variant of PulledMessage: the message is emitted for a pull of 0 too.
PulledMessageAlways(w, n) == Say(w, Msg("Pulled {n} files from remote", n))

\* createBackup: the message after the pull before push, if any.
PulledMessage(w, n) ==
    IF n > 0 THEN Say(w, Msg("Pulled {n} files from remote", n)) ELSE w

\* createBackup: the pull before push returned.
BackupPullReturn ==
    /\ Quiet
    /\ ~Urgent
    /\ wf.kind = "backup"
    /\ wf.pc = "pull"
    /\ \E n \in PullCounts :
         wf' = Recheck(PulledMessage([wf EXCEPT !.pulled = n], n), gitManager)
    /\ UNCHANGED <<bkFrame, state, writes, lastCheck>>

\* createBackup: the re-check's status() returned.
BackupStatus3Return ==
    /\ Quiet
    /\ ~Urgent
    /\ wf.kind = "backup"
    /\ wf.pc = "status3"
    /\ \E c \in ConflictLists :
         /\ lastCheck' = Observed(c)
         /\ IF RecheckBlocksPush(c)
            THEN /\ HandleConflict(c)
                 /\ wf' = Return(Reported(
                        Say([wf EXCEPT !.recheck = c],
                            Err("Cannot push. You have {n} conflict files",
                                Len(c))), c))
            ELSE /\ wf' = Call([wf EXCEPT !.recheck = c], "push", "push")
                 /\ UNCHANGED <<state, writes>>
    /\ UNCHANGED bkFrame

\* createBackup: push() returned.
BackupPushReturn ==
    /\ Quiet
    /\ ~Urgent
    /\ wf.kind = "backup"
    /\ wf.pc = "push"
    /\ \E n \in FileCounts :
         wf' = Return(Say([wf EXCEPT !.pushed = n],
                          Msg("Pushed {n} files to remote", n)))
    /\ state' = "idle"
    /\ UNCHANGED <<bkFrame, writes, lastCheck>>

\* The backend calls a workflow awaits.
BackendPcs ==
    {"pull", "status", "status1", "status2", "commitAll", "branchInfo",
     "canPush", "status3", "push"}

\* A failing backend call surfaces its error through displayError itself,
\* with the underlying message, before it rejects.
SurfaceFailure(w) == Say(w, Err("{underlying message}", 0))

\* The awaited backend call rejects: neither workflow has a try/catch, so
\* the exception leaves the workflow and nothing after the call runs.
BackendFailure ==
    /\ Quiet
    /\ ~Urgent
    /\ wf.kind # "none"
    /\ wf.pc \in BackendPcs
    /\ wf' = Throw(SurfaceFailure(wf))
    /\ UNCHANGED <<bkFrame, state, writes, lastCheck>>

\* ------------------------------------------------------------ report file
\* writeAndOpenFile resumes after adapter.write: the file holds the text, and
\* the report is opened unless an open view's text is a prefix of its name.
ReportWriteReturn ==
    /\ Quiet
    /\ ~Urgent
    /\ \E i \in 1..Len(writes) :
         /\ reportFile' = writes[i]
         /\ writes' = SubSeq(writes, 1, i - 1) \o SubSeq(writes, i + 1, Len(writes))
    /\ IF FileIsAlreadyOpened(leaves)
       THEN UNCHANGED <<leaves, opened>>
       ELSE /\ leaves' = leaves \cup {ReportViewText}
            /\ opened' = opened + 1
    /\ UNCHANGED <<loaded, settings, budget, gitManager, initVars, queueVars,
                   histVars, otherCtx, wf, lastCheck>>

\* adapter.write rejects: writeAndOpenFile's promise rejects, unobserved.
ReportWriteFails ==
    /\ Quiet
    /\ ~Urgent
    /\ \E i \in 1..Len(writes) :
         writes' = SubSeq(writes, 1, i - 1) \o SubSeq(writes, i + 1, Len(writes))
    /\ UNCHANGED <<envVars, gitManager, initVars, queueVars, histVars,
                   otherCtx, wf, lastCheck>>

\* ------------------------------------------------------------ specification
WorkflowStep ==
    \/ WorkflowInitReturn
    \/ PullPullReturn
    \/ PullStatusReturn
    \/ BackupDeleteReturn
    \/ BackupDeleteFails
    \/ BackupStatus1Return
    \/ BackupStatus2Return
    \/ BackupCommitReturn
    \/ BackupBranchInfoReturn
    \/ BackupCanPushReturn
    \/ BackupPullReturn
    \/ BackupStatus3Return
    \/ BackupPushReturn
    \/ BackendFailure

Next ==
    \/ Onload
    \/ OnloadInitReturn
    \/ CommandPull
    \/ CommandPush
    \/ CommandCommitPushSpecified
    \/ CommandListChangedFiles
    \/ ListInitReturn
    \/ ListStatusReturn
    \/ TimerBackupTick
    \/ TimerPullTick
    \/ QueueStart
    \/ QueueFinish
    \/ WorkflowStep
    \/ ReportWriteReturn
    \/ ReportWriteFails

Spec == Init /\ [][Next]_vars

\* The run with pull on boot and both interval timers, for the progress
\* properties: the pulls on boot come on top of the triggers' producers.
TimersRun == Settings(FALSE, TRUE, 1, 1, FALSE, TRUE)

FairInit == InitFor({TimersRun}, MaxTasks - 1)

\* An awaited backend, vault or checkRequirements call settles in the end,
\* and the queue's own synchronous steps are taken.
FairSpec ==
    /\ FairInit
    /\ [][Next]_vars
    /\ WF_vars(WorkflowStep)
    /\ WF_vars(QueueStart)
    /\ WF_vars(QueueFinish)

\* ------------------------------------------------------------ properties
Range(q) == {q[i] : i \in 1..Len(q)}
Last(q) == q[Len(q)]

\* The position of the first call named c in a call log, 0 when absent.
FirstIndex(q, c) ==
    IF c \in Range(q) THEN CHOOSE i \in 1..Len(q) :
                             q[i] = c /\ \A j \in 1..(i - 1) : q[j] # c
    ELSE 0

\* The path a bullet of the report stands for.
PathOfBullet(b) ==
    IF b[1] = "notafile" THEN b[2]
    ELSE CHOOSE p \in Paths : LinkText(p) = b[2]

\* The bullet lines of a report text.
BulletsOf(text) == SelectSeq(text, LAMBDA l : l[1] \in {"link", "notafile"})

\* The paths a report text lists, in order.
PathsListed(text) ==
    [i \in 1..Len(BulletsOf(text)) |-> PathOfBullet(BulletsOf(text)[i])]

AutoBackupSawConflicts ==
    /\ wf.kind = "backup"
    /\ wf.auto
    /\ wf.first # Unchecked
    /\ wf.first # <<>>

\* C1: an automatically triggered backup on a conflict-aware backend whose
\* first status() reports conflicts ends right there: it has called neither
\* commitAll nor push, the state is conflicted, it has emitted an error that
\* carries the number of conflicted files, and the report it hands to
\* adapter.write lists exactly the conflicted paths, one bullet each, in order.
C1_AutoBackupStopsOnConflict ==
    AutoBackupSawConflicts =>
        /\ wf.pc = "done"
        /\ wf.outcome = "returned"
        /\ "commitAll" \notin Range(wf.calls)
        /\ "push" \notin Range(wf.calls)
        /\ state = "conflicted"
        /\ \E i \in 1..Len(wf.msgs) :
             wf.msgs[i].err /\ wf.msgs[i].n = Len(wf.first)
        /\ wf.report \in Range(writes)
        /\ PathsListed(wf.report) = wf.first

C1_Witness ==
    /\ AutoBackupSawConflicts
    /\ wf.first = <<"b.md", "c.md">>
    /\ wf.pc = "done"
    /\ Len(BulletsOf(wf.report)) = 2

ManualBackup == wf.kind = "backup" /\ ~wf.auto

\* C2: a manual backup goes on to the changed-files status after a first
\* status() with conflicts and calls commitAll when files changed; on a
\* conflict-aware backend every push directly follows a status() re-check
\* that reported no conflicts and that itself follows the pre-push pull when
\* pullBeforePush is set; after a re-check that reported conflicts the
\* workflow has ended with an error and a conflict report, without a push.
C2_ManualCommitsButNeverPushesConflicts ==
    ManualBackup =>
        LET calls == wf.calls
            s1 == FirstIndex(calls, "status")
            p == FirstIndex(calls, "push")
        IN /\ (wf.first # Unchecked) =>
                 /\ Len(calls) > s1
                 /\ calls[s1 + 1] = "status"
           /\ (wf.changed # Unchecked /\ wf.changed # <<>>) =>
                 "commitAll" \in Range(calls)
           /\ (p > 0 /\ ConflictAware(gitManager)) =>
                 /\ calls[p - 1] = "status"
                 /\ wf.recheck = <<>>
                 /\ calls[p - 2] =
                      (IF settings.pullBeforePush THEN "pull" ELSE "canPush")
           /\ (wf.recheck # Unchecked /\ wf.recheck # <<>>) =>
                 /\ p = 0
                 /\ wf.pc = "done"
                 /\ Last(calls) = "write"
                 /\ Last(wf.msgs).err
                 /\ PathsListed(wf.report) = wf.recheck

C2_Witness ==
    /\ ManualBackup
    /\ wf.first # Unchecked /\ wf.first # <<>>
    /\ "commitAll" \in Range(wf.calls)
    /\ "pull" \in Range(wf.calls)
    /\ wf.recheck # Unchecked /\ wf.recheck # <<>>
    /\ wf.pc = "done"

\* C3: whatever the interleaving of timer ticks and commands, the producers
\* start in the order of their addTask calls, and at most one producer body
\* is in execution at any instant.
C3_FifoAndMutualExclusion ==
    /\ bodies <= 1
    /\ bodies = (IF wf.kind = "none" THEN 0 ELSE 1)
    /\ wf.kind # "none" => wf.ticket = started
    /\ \A i \in 1..Len(pending) : pending[i].ticket = started + i
    /\ enqueued = started + Len(pending)

C3_Witness ==
    /\ wf.kind = "backup" /\ wf.auto /\ wf.outcome = "running"
    /\ wf.ticket = 1
    /\ Len(pending) = 1
    /\ ~pending[1].auto

\* A producer's promise has rejected.
Failed == lastFailed \/ wf.outcome = "rejected"

\* C4: a producer that fails does not stop the queue: once a workflow has
\* rejected, every producer handed to addTask, before or after the failure,
\* is still started in the end.  A run makes finitely many addTask calls, so
\* this is: after a failure the queue reaches a state in which every
\* producer handed to it so far has been started.
C4_QueueSurvivesFailure == Failed ~> (started = enqueued)

C4_Witness ==
    /\ lastFailed
    /\ wf.kind # "none"
    /\ wf.outcome = "running"
    /\ started = 2

\* A backend call issued outside the queue is outstanding: the
\* checkRequirements of onload's init(), or the init() or status() of the
\* list-changed-files callback.
DirectCallOutstanding == onloadInit \/ listCmd # "none"

\* C5: every backend call is issued by the task running on the queue; no
\* command or lifecycle event has a backend call of its own outstanding.
C5_AllBackendCallsQueued == ~DirectCallOutstanding

\* The step is the return of an init() in one of the three contexts.
InitReturnStep == initEvent'.res # "none"

NonReady == {"missing-git", "missing-repo", "wrong-settings"}

\* C6: an init() whose checkRequirements gives a non-ready result reports
\* an error and leaves gitReady, the timers and the queue as they were.
C6_NonReadyInitLeavesNotReady ==
    [][(InitReturnStep /\ initEvent'.res \in NonReady) =>
          /\ initEvent'.err # "none"
          /\ gitReady' = gitReady
          /\ intervalBackup' = intervalBackup
          /\ intervalPull' = intervalPull
          /\ enqueued' = enqueued]_vars

\* C7: a workflow that is still not ready after its init() re-attempt ends
\* at once as a no-op: checkRequirements is the only call it has made, it
\* has emitted no message and written no report, and neither its start nor
\* its return changes the state, the report file or the writes in flight.
C7_NotReadyWorkflowIsNoOp ==
    [][/\ (wf'.readyAfterInit = "no" /\ wf' # wf) =>
            /\ wf'.pc = "done"
            /\ wf'.outcome = "returned"
            /\ wf'.calls = <<"checkRequirements">>
            /\ wf'.msgs = <<>>
            /\ wf'.report = Absent
            /\ state' = state
            /\ reportFile' = reportFile
            /\ writes' = writes
       /\ (wf.kind = "none" /\ wf'.kind # "none") =>
            /\ state' = state
            /\ reportFile' = reportFile
            /\ writes' = writes]_vars

C7_Witness ==
    /\ wf.kind = "backup"
    /\ wf.readyAfterInit = "no"
    /\ wf.pc = "done"
    /\ ~gitReady

NoWorkflowRunning == wf.kind = "none" \/ wf.pc = "done"

\* C8: while no workflow runs, the state is conflicted exactly when the last
\* status() whose conflicted set a workflow read was non-empty.
C8_ConflictedIffLastCheckConflicted ==
    NoWorkflowRunning => (state = "conflicted" <=> lastCheck = "nonempty")

\* C9: a workflow's step takes the state out of conflicted only if the
\* workflow is a backup that found no conflicts and has completed a
\* commitAll; no pull workflow and no backup that commits nothing does.
C9_ConflictedLeftOnlyByCommit ==
    [][(state = "conflicted" /\ state' # "conflicted"
            /\ wf.kind # "none" /\ wf' # wf) =>
          /\ wf.kind = "backup"
          /\ wf'.first \in {Unchecked, <<>>}
          /\ wf'.recheck \in {Unchecked, <<>>}
          /\ \E i \in 1..Len(wf'.msgs) :
               wf'.msgs[i].text = "Committed {n} files"]_vars

\* The workflow ended because an awaited backend call rejected.
BackendCallFailed ==
    /\ wf.pc = "done"
    /\ wf.outcome = "rejected"
    /\ Last(wf.calls) # "delete"

\* C10: after a backend call fails in a workflow, the failure has been shown
\* through displayError with the underlying message, and the state is idle.
C10_FailureShownAndIdle ==
    BackendCallFailed =>
        /\ wf.msgs # <<>>
        /\ Last(wf.msgs) = Err("{underlying message}", 0)
        /\ state = "idle"

\* A manual backup has ended after its delete of the report file settled.
DeleteSettled ==
    /\ ManualBackup
    /\ "delete" \in Range(wf.calls)
    /\ wf.pc = "done"

\* C11: a manual backup is not aborted by its delete of the report file,
\* whether the file exists or not (the lookup finds nothing and the delete
\* fails): it goes on to the status check.
C11_MissingReportDoesNotAbort ==
    DeleteSettled =>
        /\ Last(wf.calls) # "delete"
        /\ "status" \in Range(wf.calls)

\* C12: a backup calls push only after, in the same workflow, branchInfo()
\* returned a remote and canPush() returned true; once canPush() has returned
\* false the workflow has returned without a pull or a push, its last
\* message is "No changes to push" and the state is idle.
C12_PushOnlyWithRemoteAndCanPush ==
    wf.kind = "backup" =>
        /\ "push" \in Range(wf.calls) =>
              (wf.remote = "yes" /\ wf.can = "yes")
        /\ wf.can = "no" =>
              /\ "pull" \notin Range(wf.calls)
              /\ "push" \notin Range(wf.calls)
              /\ wf.pc = "done"
              /\ wf.outcome = "returned"
              /\ Last(wf.calls) = "canPush"
              /\ Last(wf.msgs) = Msg("No changes to push", 0)
              /\ state = "idle"

C12_Witness ==
    /\ wf.kind = "backup"
    /\ wf.remote = "yes"
    /\ wf.can = "no"
    /\ wf.committed = 1

\* C13: once branchInfo() has returned no remote, the backup has returned:
\* its last message is the no-upstream error, branchInfo is the last call it
\* made, it has called none of canPush, pull and push, and the state is idle.
C13_NoUpstreamEndsWithError ==
    (wf.kind = "backup" /\ wf.remote = "no") =>
        /\ wf.pc = "done"
        /\ wf.outcome = "returned"
        /\ Last(wf.msgs) = Err("Did not push. No upstream branch is set!", 0)
        /\ Last(wf.calls) = "branchInfo"
        /\ Range(wf.calls) \cap {"canPush", "pull", "push"} = {}
        /\ state = "idle"

C13_Witness ==
    /\ wf.kind = "backup"
    /\ wf.remote = "no"
    /\ wf.pc = "done"
    /\ wf.committed = 1

\* C14: a backup whose changed-files status() returned no file never calls
\* commitAll and has emitted "No changes to commit"; when push is not
\* disabled, branchInfo is the call it makes next, and canPush follows as
\* soon as branchInfo has returned a remote.
C14_NothingChangedSkipsCommit ==
    (wf.kind = "backup" /\ wf.changed = <<>>) =>
        LET calls == wf.calls
            b == FirstIndex(calls, "branchInfo")
        IN /\ "commitAll" \notin Range(calls)
           /\ wf.committed = -1
           /\ Msg("No changes to commit", 0) \in Range(wf.msgs)
           /\ ~settings.disablePush =>
                 /\ b > 1
                 /\ calls[b - 1] = "status"
                 /\ wf.remote = "yes" =>
                       (Len(calls) > b /\ calls[b + 1] = "canPush")

C14_Witness ==
    /\ wf.kind = "backup"
    /\ wf.changed = <<>>
    /\ ~settings.disablePush
    /\ "canPush" \in Range(wf.calls)

\* The place of the i-th call of a backup's call log in the order of
\* createBackup: a status() before branchInfo is the conflict check or the
\* changed-files check, one after it is the re-check before push.
CallRank(calls, i) ==
    LET c == calls[i]
        before == Range(SubSeq(calls, 1, i - 1))
    IN CASE c = "checkRequirements" -> 0
         [] c = "delete" -> 1
         [] c = "status" -> (IF "branchInfo" \in before THEN 8
                             ELSE IF "status" \in before THEN 3 ELSE 2)
         [] c = "commitAll" -> 4
         [] c = "branchInfo" -> 5
         [] c = "canPush" -> 6
         [] c = "pull" -> 7
         [] c = "push" -> 9
         [] c = "write" -> 10
         [] OTHER -> -1

\* The place of a message in the same order; the message of a failing
\* backend call can only be the last one.
MsgRank(m) ==
    CASE m.text = "Did not commit, because you have {n} conflict files" -> 2
      [] m.text \in {"Committed {n} files", "No changes to commit"} -> 4
      [] m.text = "Did not push. No upstream branch is set!" -> 5
      [] m.text = "No changes to push" -> 6
      [] m.text = "Pulled {n} files from remote" -> 7
      [] m.text = "Cannot push. You have {n} conflict files" -> 8
      [] m.text = "Pushed {n} files to remote" -> 9
      [] m.text = "{underlying message}" -> 11
      [] OTHER -> -1

\* The scenario of the claim, run to its end: one changed file committed,
\* no conflicts, push enabled, an upstream, canPush true, pullBeforePush
\* with a pull of 0 files, one file pushed.
CleanBackupDone ==
    /\ wf.kind = "backup"
    /\ wf.pc = "done"
    /\ wf.outcome = "returned"
    /\ wf.first \in {Unchecked, <<>>}
    /\ wf.changed = <<"a.md">>
    /\ wf.committed = 1
    /\ ~settings.disablePush
    /\ wf.remote = "yes"
    /\ wf.can = "yes"
    /\ settings.pullBeforePush
    /\ wf.pulled = 0
    /\ wf.recheck \in {Unchecked, <<>>}
    /\ wf.pushed = 1

\* C15: the calls of a backup, and its messages, come in the order of
\* createBackup: status check, commitAll, branchInfo, canPush, pull,
\* conflict re-check, push, each at most once (the status check at most
\* twice), that is, each call and each message has a later place in that
\* order than the one before it; and the backup of the scenario has emitted exactly
\* "Committed 1 files" then "Pushed 1 files to remote", and the state is idle.
C15_FixedOrderOfCallsAndMessages ==
    wf.kind = "backup" =>
        /\ \A i \in 1..(Len(wf.calls) - 1) :
              /\ CallRank(wf.calls, i) >= 0
              /\ CallRank(wf.calls, i) < CallRank(wf.calls, i + 1)
        /\ \A i \in 1..(Len(wf.msgs) - 1) :
              /\ MsgRank(wf.msgs[i]) >= 0
              /\ MsgRank(wf.msgs[i]) < MsgRank(wf.msgs[i + 1])
        /\ CleanBackupDone =>
              /\ wf.msgs = <<Msg("Committed {n} files", 1),
                             Msg("Pushed {n} files to remote", 1)>>
              /\ state = "idle"

C15_Witness ==
    /\ CleanBackupDone
    /\ wf.recheck = <<>>
    /\ Len(wf.calls) >= 7

\* The texts of the messages a workflow has emitted.
Texts(w) == {w.msgs[i].text : i \in 1..Len(w.msgs)}

\* C16: a pull workflow whose pull() returned 0 has emitted the up-to-date
\* message and no pulled message; one whose pull() returned N > 0 has emitted
\* the pulled message carrying exactly N and no up-to-date message.
C16_PullMessageMatchesCount ==
    (wf.kind = "pull" /\ wf.pulled >= 0) =>
        /\ wf.pulled = 0 =>
              /\ wf.msgs[1] = Msg("Everything is up-to-date", 0)
              /\ "Pulled new changes. {n} files updated" \notin Texts(wf)
        /\ wf.pulled > 0 =>
              /\ wf.msgs[1] =
                    Msg("Pulled new changes. {n} files updated", wf.pulled)
              /\ "Everything is up-to-date" \notin Texts(wf)
              /\ \A i \in 1..Len(wf.msgs) :
                    wf.msgs[i].text = "Pulled new changes. {n} files updated"
                        => i = 1

C16_Witness ==
    /\ wf.kind = "pull"
    /\ wf.pulled = 1
    /\ wf.pc = "done"

\* An open view displays the report document.
ReportDisplayed == ReportViewText \in leaves

\* C17: once the reporter has written the report, a view displays it: the
\* reporter opens the document unless an open view already displays it, so
\* no other open view keeps the report unopened; and the reporter has
\* opened at most one view, however many reports it wrote.
C17_ReportOpenedExactlyOnce ==
    /\ opened <= 1
    /\ reportFile # Absent => ReportDisplayed

\* A step of the pull path: the queue starts a pull workflow, or a pull
\* workflow resumes from an awaited call.
PullPathStep == wf' # wf /\ wf'.kind = "pull"

DeletedAndNotReported ==
    /\ ManualBackup
    /\ "delete" \in Range(wf.calls)
    /\ wf.pc # "delete"
    /\ wf.report = Absent

\* C19: the write of a conflict report is part of the backup that reports:
\* no write is in flight once the workflow has ended or while the queue is
\* idle, and after a manual backup has deleted the report file the file
\* stays absent until that backup writes a report of its own.
C19_ReportWriteInsideWorkflow ==
    /\ NoWorkflowRunning => writes = <<>>
    /\ DeletedAndNotReported => reportFile = Absent

\* The pulls that init() has handed to the queue: the addTask calls that no
\* command and no timer tick made.
PullsOnBoot == enqueued - triggered

\* The step is the return of the init() that a workflow re-attempted.
WorkflowInitStep == wf.pc = "init" /\ wf' # wf

\* C20: when the init() re-attempted by a workflow returns, however it is
\* interleaved with the init() of onload, at most one auto-backup timer and
\* at most one auto-pull timer are armed and at most one pull on start has
\* been enqueued.
C20_InitEffectsAtMostOnce ==
    [][WorkflowInitStep =>
          /\ intervalBackup' <= 1
          /\ intervalPull' <= 1
          /\ PullsOnBoot' <= 1]_vars
====
